---- MODULE Spec2Model ----
(***************************************************************************)
(* The topic / post consistency engine of django-machina                   *)
(* (machina/apps/forum_conversation/abstract_models.py) and the forum      *)
(* search exercised by tests/functional/search/test_forms.py.              *)
(*                                                                         *)
(* The database holds topic rows, post rows and the forum counters.  A     *)
(* topic is also held in memory as a Python instance with its own copy of  *)
(* the fields and its memoized _first_post / _last_post; an operation runs *)
(* either through such a held instance or through an instance freshly      *)
(* loaded from the database.                                               *)
(***************************************************************************)
EXTENDS Integers, Sequences, FiniteSets, TLC

\* ------------------------------------------------------------------ bounds
MaxTopics == 1
MaxPosts == 2
MaxTime == 1
MaxInst == 1
MaxDocs == 2

\* ------------------------------------------------------------ value spaces
\* None is the id of no row; Unset is an attribute an instance does not have.
None == 0
Unset == -1

Subjects == {"Hello", "World"}

\* slugify(force_text(subject)) on the subjects above: lower-cased
Slugify(s) == IF s = "Hello" THEN "hello" ELSE "world"

\* The forum tree: a category root, a forum under it, a forum under that
\* forum, and a link forum under the root.
Forums == 1..4
ForumParent == <<None, 1, 2, 1>>
ForumType == <<"category", "forum", "forum", "link">>

is_category(f) == ForumType[f] = "category"
is_link(f) == ForumType[f] = "link"

\* The identities, and a forum id that names no forum
Users == 1..2
MissingForum == 1000

TopicIds == 1..MaxTopics
PostIds == 1..MaxPosts
Insts == 1..MaxInst
DocIds == 1..MaxDocs

VARIABLES
    now,         \* the clock read by auto_now / auto_now_add
    auto_now,    \* the auto_now flag of the shared Topic 'updated' field
    topics,      \* topic rows, by id
    posts,       \* post rows, by id
    forums,      \* forum counters, by forum id
    inst,        \* held in-memory topic instances
    next_topic,  \* the next topic id the database gives out
    next_post,   \* the next post id the database gives out
    op,          \* the operation that ran last and how it ended
    perms,       \* the <<identity, forum>> pairs granted can_read_forum
    index,       \* the search index: a document per indexed post id
    found,       \* what the search that ran last was given and returned
    threads      \* the threads of one process that are saving a topic

\* What the operations on topics and posts leave alone
svars == <<perms, index, found, threads>>
vars == <<now, auto_now, topics, posts, forums, inst, next_topic, next_post, op,
          perms, index, found, threads>>

\* ---------------------------------------------------------------- helpers
RECURSIVE SumOver(_, _)
SumOver(S, f) ==
    IF S = {} THEN 0
    ELSE LET x == CHOOSE y \in S : TRUE IN f[x] + SumOver(S \ {x}, f)

NoRows == [x \in {} |-> None]
Put(f, k, v) == [x \in (DOMAIN f) \cup {k} |-> IF x = k THEN v ELSE f[x]]
Drop(f, K) == [x \in (DOMAIN f) \ K |-> f[x]]

\* A call an operation makes: the function and the id of the row it is on
Call(fn, arg) == [fn |-> fn, arg |-> arg]

\* A query the database fails (a DatabaseError raised from Model.save): none,
\* the topic's save in _simple_save, or the forum's rollup that follows it
Faults == {"none", "topic", "forum"}

\* topic.posts: the posts attached to topic t
PostsOf(ps, t) == {p \in DOMAIN ps : ps[p].topic = t}

\* An instance that holds no topic (a deleted instance has pk None)
NoInst ==
    [pk |-> None, forum |-> 1, subject |-> "Hello", slug |-> "hello",
     approved |-> TRUE, posts_count |-> 0, updated |-> 0,
     first |-> Unset, last |-> Unset]

\* Topic.objects.get(pk=t): a fresh instance, nothing memoized
Load(tps, t) ==
    [pk |-> t, forum |-> tps[t].forum, subject |-> tps[t].subject,
     slug |-> tps[t].slug, approved |-> tps[t].approved,
     posts_count |-> tps[t].posts_count, updated |-> tps[t].updated,
     first |-> Unset, last |-> Unset]

\* The row Model.save writes for instance X (every field is written)
Row(X) ==
    [forum |-> X.forum, subject |-> X.subject, slug |-> X.slug,
     approved |-> X.approved, posts_count |-> X.posts_count,
     updated |-> X.updated]

\* The instance an operation runs through: held instance i, or (i = None) one
\* freshly loaded for topic t
Through(i, t) == IF i = None THEN Load(topics, t) ELSE inst[i]
Keep(i, X) == IF i = None THEN inst ELSE [inst EXCEPT ![i] = X]

\* ------------------------------------------------------- forum-level rollup
\* A forum with its ancestors, and a forum with its descendants
Ancestors ==
    LET RECURSIVE Up(_)
        Up(g) == IF g = None THEN {} ELSE {g} \cup Up(ForumParent[g])
    IN [f \in Forums |-> Up(f)]
Descendants == [f \in Forums |-> {g \in Forums : f \in Ancestors[g]}]

\* Forum.update_trackers: recompute the forum's counters from the topics of
\* the forum and of its descendants, then do the same for its parent.
RECURSIVE ForumUpdateTrackers(_, _, _)
ForumUpdateTrackers(f, tps, fc) ==
    IF f = None THEN fc
    ELSE LET own == {t \in DOMAIN tps : tps[t].forum \in Descendants[f]}
             cnt == [t \in own |-> tps[t].posts_count]
             fc1 == [fc EXCEPT ![f] = [topics_count |-> Cardinality(own),
                                       posts_count |-> SumOver(own, cnt)]]
         IN ForumUpdateTrackers(ForumParent[f], tps, fc1)

\* -------------------------------------------------------------- AbstractTopic
\* posts.order_by('created')[0]: the database may return any of the posts
\* that share the earliest creation time; None when the topic has no post
FirstCandidates(ps, t) ==
    LET own == PostsOf(ps, t)
    IN IF own = {} THEN {None}
       ELSE {p \in own : \A q \in own : ps[p].created <= ps[q].created}

\* posts.order_by('-created')[0]
LastCandidates(ps, t) ==
    LET own == PostsOf(ps, t)
    IN IF own = {} THEN {None}
       ELSE {p \in own : \A q \in own : ps[p].created >= ps[q].created}

\* The creation time of the latest post of topic t (which has a post)
MaxCreated(ps, t) == ps[CHOOSE p \in LastCandidates(ps, t) : TRUE].created

\* Topic.first_post: the values the property can return for instance X
first_post(X, ps) ==
    IF X.first = Unset THEN FirstCandidates(ps, X.pk) ELSE {X.first}

\* Topic.last_post
last_post(X, ps) ==
    IF X.last = Unset THEN LastCandidates(ps, X.pk) ELSE {X.last}

\* Topic.clean: TRUE when it raises ValidationError
clean(X) == is_category(X.forum) \/ is_link(X.forum)

\* _simple_save that leaves auto_now on: 'updated' is written as the clock
_simple_save_auto_now(X, tps) == Put(tps, X.pk, [Row(X) EXCEPT !.updated = now])

\* Topic._simple_save: the parent save with auto_now switched off, so
\* 'updated' is written as the instance holds it
_simple_save(X, tps) == Put(tps, X.pk, Row(X))

\* Topic.update_trackers on instance X, against post rows ps, topic rows tps
\* and forum counters fc, under database fault: one outcome per post the
\* last-post query may return.  An outcome carries the auto_now flag the call
\* leaves behind and the calls made.
update_trackers(X, ps, tps, fc, fault) ==
    { LET X1 == [X EXCEPT !.posts_count = Cardinality(PostsOf(ps, X.pk)),
                          !.last = lp]
          c1 == <<Call("Topic.update_trackers", X.pk)>>
      IN IF lp = None
         THEN \* self._last_post.created on None
              [X |-> X1, topics |-> tps, forums |-> fc, auto_now |-> auto_now,
               calls |-> c1, result |-> "AttributeError"]
         ELSE LET X2 == [X1 EXCEPT !.updated = ps[lp].created]
                  c2 == Append(c1, Call("Topic._simple_save", X.pk))
                  tps2 == _simple_save(X2, tps)
              IN IF fault = "topic"
                 THEN \* the parent save raises: auto_now is left switched off
                      [X |-> X2, topics |-> tps, forums |-> fc,
                       auto_now |-> FALSE, calls |-> c2,
                       result |-> "DatabaseError"]
                 ELSE IF fault = "forum"
                 THEN \* the topic is persisted, the forum rollup raises
                      [X |-> X2, topics |-> tps2, forums |-> fc,
                       auto_now |-> TRUE,
                       calls |-> Append(c2, Call("Forum.update_trackers",
                                                 X2.forum)),
                       result |-> "DatabaseError"]
                 ELSE [X |-> X2, topics |-> tps2,
                       forums |-> ForumUpdateTrackers(X2.forum, tps2, fc),
                       auto_now |-> TRUE,
                       calls |-> Append(c2, Call("Forum.update_trackers",
                                                 X2.forum)),
                       result |-> "ok"]
      : lp \in LastCandidates(ps, X.pk) }

\* Topic.save that forgets the forum the topic has left
topic_save_new_forum_only(X, ps, tps, fc, t_now) ==
    LET old_forum == tps[X.pk].forum
        X1 == [X EXCEPT !.slug = Slugify(X.subject),
                        !.updated = IF auto_now THEN t_now ELSE @]
        tps1 == Put(tps, X1.pk, Row(X1))
    IN IF old_forum # X1.forum
       THEN { [X |-> o.X, topics |-> o.topics, forums |-> o.forums,
               auto_now |-> o.auto_now,
               calls |-> <<Call("Topic.super_save", X.pk)>> \o o.calls,
               old_forum |-> old_forum, result |-> o.result]
              : o \in update_trackers(X1, ps, tps1, fc, "none") }
       ELSE { [X |-> X1, topics |-> tps1, forums |-> fc,
               auto_now |-> auto_now,
               calls |-> <<Call("Topic.super_save", X.pk)>>,
               old_forum |-> old_forum, result |-> "ok"] }

\* Topic.save on instance X of an existing row, as it stands at time t_now:
\* one outcome per outcome of update_trackers when the forum has changed
topic_save(X, ps, tps, fc, t_now) ==
    LET old_forum == tps[X.pk].forum
        X1 == [X EXCEPT !.slug = Slugify(X.subject),
                        !.updated = IF auto_now THEN t_now ELSE @]
        tps1 == Put(tps, X1.pk, Row(X1))
    IN IF old_forum # X1.forum
       THEN { [X |-> o.X, topics |-> o.topics,
               forums |-> IF o.result = "ok"
                          THEN \* refresh(old_instance.forum).update_trackers()
                               ForumUpdateTrackers(old_forum, o.topics, o.forums)
                          ELSE o.forums,
               auto_now |-> o.auto_now,
               calls |-> <<Call("Topic.super_save", X.pk)>> \o o.calls
                         \o (IF o.result = "ok"
                             THEN <<Call("Forum.update_trackers", old_forum)>>
                             ELSE <<>>),
               old_forum |-> old_forum, result |-> o.result]
              : o \in update_trackers(X1, ps, tps1, fc, "none") }
       ELSE { [X |-> X1, topics |-> tps1, forums |-> fc,
               auto_now |-> auto_now,
               calls |-> <<Call("Topic.super_save", X.pk)>>,
               old_forum |-> old_forum, result |-> "ok"] }

\* Topic.delete on instance X: the row and, by cascade, its posts go; the
\* instance loses its pk; then the rollup of the instance's forum
topic_delete(X, ps, tps, fc) ==
    LET tps1 == Drop(tps, {X.pk})
    IN [X |-> [X EXCEPT !.pk = None],
        posts |-> Drop(ps, PostsOf(ps, X.pk)),
        topics |-> tps1,
        forums |-> ForumUpdateTrackers(X.forum, tps1, fc),
        calls |-> <<Call("Topic.super_delete", X.pk),
                    Call("Forum.update_trackers", X.forum)>>,
        result |-> "ok"]

\* --------------------------------------------------------------- AbstractPost
\* Post.position
position(ps, p) ==
    Cardinality({q \in PostsOf(ps, ps[p].topic) :
                    ps[q].created < ps[p].created \/ q = p})

\* ------------------------------------------------------------- SearchForm
\* The forums that host posts
PostForums == {f \in Forums : ForumType[f] = "forum"}

\* The forums identity u may read: can_read asked once per forum
allowed_forums(pm, u) == {f \in Forums : <<u, f>> \in pm}

\* is_valid that accepts any explicit set
is_valid_any(pm, u, asked) == TRUE

\* form.is_valid(): every forum id of an explicit set must be one of the
\* forums the identity may read (asked = {} when no set is given)
is_valid(pm, u, asked) == asked \subseteq allowed_forums(pm, u)

\* search that does not scope an unrestricted query to the readable forums
search_unscoped(idx, pm, u, q, poster, asked) ==
    IF ~is_valid(pm, u, asked) THEN {}
    ELSE {d \in DOMAIN idx :
             /\ idx[d].subject = q
             /\ poster # None => idx[d].poster = poster
             /\ asked # {} => idx[d].forum \in asked}

\* form.search(): the documents that match query q, and the poster name when
\* one is given, in the forums of the explicit set or else in the readable
\* forums; nothing when the form is not valid
search(idx, pm, u, q, poster, asked) ==
    IF ~is_valid(pm, u, asked) THEN {}
    ELSE LET scope == IF asked = {} THEN allowed_forums(pm, u) ELSE asked
         IN {d \in DOMAIN idx :
                /\ idx[d].subject = q
                /\ poster # None => idx[d].poster = poster
                /\ idx[d].forum \in scope}

\* No search has run since the last other operation
NoSearch ==
    [user |-> None, q |-> "Hello", asked |-> {}, valid |-> TRUE,
     results |-> {}]

\* What an operation did: its name, the instance, topic and post it ran on,
\* the forum Topic.save found persisted, how it ended, and the calls it made
\* in order
OpC(name, i, t, p, old, res, calls) ==
    [name |-> name, inst |-> i, topic |-> t, post |-> p,
     old_forum |-> old, result |-> res, calls |-> calls]

Op(name, i, t, p, old, res) == OpC(name, i, t, p, old, res, <<>>)

\* The threads of one process, and a thread that is saving nothing
Threads == 1..2
IdleThread ==
    [pc |-> "idle", kind |-> "none", value |-> Unset, written |-> Unset,
     clock |-> Unset]
NoThreads == [th \in Threads |-> IdleThread]

\* ------------------------------------------------------------------ actions
Init ==
    /\ now = 0
    /\ auto_now = TRUE
    /\ topics = NoRows
    /\ posts = NoRows
    /\ forums = [f \in Forums |-> [topics_count |-> 0, posts_count |-> 0]]
    /\ inst = [i \in Insts |-> NoInst]
    /\ next_topic = 1
    /\ next_post = 1
    /\ op = Op("init", None, None, None, None, "ok")
    /\ perms = {}
    /\ index = NoRows
    /\ found = NoSearch
    /\ threads = NoThreads

\* Time passes
Tick ==
    /\ now < MaxTime
    /\ now' = now + 1
    /\ op' = Op("Tick", None, None, None, None, "ok")
    /\ UNCHANGED <<auto_now, topics, posts, forums, inst, next_topic,
                   next_post>>
    /\ UNCHANGED svars

\* Topic(forum=f, subject=s).save() on a new instance, kept as instance i
TopicCreate(i, f, s) ==
    /\ next_topic <= MaxTopics
    /\ LET X == [NoInst EXCEPT !.pk = next_topic, !.forum = f, !.subject = s,
                               !.slug = Slugify(s),
                               !.updated = IF auto_now THEN now ELSE @]
       IN /\ topics' = Put(topics, X.pk, Row(X))
          /\ inst' = [inst EXCEPT ![i] = X]
          /\ op' = OpC("TopicCreate", i, X.pk, None, None, "ok",
                        <<Call("Topic.super_save", X.pk)>>)
    /\ next_topic' = next_topic + 1
    /\ UNCHANGED <<now, auto_now, posts, forums, next_post>>
    /\ UNCHANGED svars

\* Topic.objects.get(pk=t), kept as instance i
TopicLoad(i, t) ==
    /\ t \in DOMAIN topics
    /\ inst' = [inst EXCEPT ![i] = Load(topics, t)]
    /\ op' = Op("TopicLoad", i, t, None, None, "ok")
    /\ UNCHANGED <<now, auto_now, topics, posts, forums, next_topic, next_post>>
    /\ UNCHANGED svars

\* topic.forum = f; topic.save() on held instance i
TopicSave(i, f) ==
    LET X0 == [inst[i] EXCEPT !.forum = f] IN
    /\ X0.pk # None
    /\ IF X0.pk \notin DOMAIN topics
       THEN \* _default_manager.get(pk=self.pk) finds no row
            /\ op' = Op("TopicSave", i, X0.pk, None, None, "DoesNotExist")
            /\ inst' = [inst EXCEPT ![i] = X0]
            /\ UNCHANGED <<topics, forums, auto_now>>
       ELSE \E o \in topic_save(X0, posts, topics, forums, now) :
              /\ inst' = [inst EXCEPT ![i] = o.X]
              /\ topics' = o.topics
              /\ forums' = o.forums
              /\ auto_now' = o.auto_now
              /\ op' = OpC("TopicSave", i, X0.pk, None, o.old_forum, o.result,
                           o.calls)
    /\ UNCHANGED <<now, posts, next_topic, next_post>>
    /\ UNCHANGED svars

\* Topic.delete on held instance i
TopicDelete(i) ==
    LET X0 == inst[i] IN
    /\ X0.pk \in DOMAIN topics
    /\ LET o == topic_delete(X0, posts, topics, forums)
       IN /\ inst' = [inst EXCEPT ![i] = o.X]
          /\ posts' = o.posts
          /\ topics' = o.topics
          /\ forums' = o.forums
          /\ op' = OpC("TopicDelete", i, X0.pk, None, None, "ok", o.calls)
    /\ UNCHANGED <<now, auto_now, next_topic, next_post>>
    /\ UNCHANGED svars

\* A caller reads topic.first_post on held instance i
TopicFirstPost(i) ==
    /\ inst[i].pk # None
    /\ inst[i].first = Unset
    /\ \E fp \in first_post(inst[i], posts) :
         inst' = [inst EXCEPT ![i].first = fp]
    /\ op' = Op("TopicFirstPost", i, inst[i].pk, None, None, "ok")
    /\ UNCHANGED <<now, auto_now, topics, posts, forums, next_topic, next_post>>
    /\ UNCHANGED svars

\* A caller reads topic.last_post on held instance i
TopicLastPost(i) ==
    /\ inst[i].pk # None
    /\ inst[i].last = Unset
    /\ \E lp \in last_post(inst[i], posts) :
         inst' = [inst EXCEPT ![i].last = lp]
    /\ op' = Op("TopicLastPost", i, inst[i].pk, None, None, "ok")
    /\ UNCHANGED <<now, auto_now, topics, posts, forums, next_topic, next_post>>
    /\ UNCHANGED svars

\* A caller runs topic.clean() (as full_clean does) on held instance i
TopicClean(i) ==
    /\ inst[i].pk # None
    /\ op' = Op("TopicClean", i, inst[i].pk, None, None,
                IF clean(inst[i]) THEN "ValidationError" ELSE "ok")
    /\ UNCHANGED <<now, auto_now, topics, posts, forums, inst, next_topic,
                   next_post>>
    /\ UNCHANGED svars

\* Post.save of post p (with row as the instance's fields) whose topic
\* attribute is instance X0, held as i or fresh; ps1 is the post table after
\* the parent save
post_save(i, X0, p, ps1, fault) ==
    /\ posts' = ps1
    /\ \E fp \in first_post(X0, ps1) :
         LET X1 == [X0 EXCEPT !.first = fp]
             c0 == <<Call("Post.super_save", p)>>
         IN
         IF fp = None
         THEN \* self.topic.first_post.id on None
              /\ inst' = Keep(i, X1)
              /\ op' = OpC("PostSave", i, X0.pk, p, None, "AttributeError", c0)
              /\ UNCHANGED <<topics, forums, auto_now>>
         ELSE LET row == ps1[p]
                  X2 == IF fp = p /\ (row.subject # X1.subject
                                      \/ row.approved # X1.approved)
                        THEN [X1 EXCEPT !.subject = row.subject,
                                        !.approved = row.approved]
                        ELSE X1
              IN \E o \in update_trackers(X2, ps1, topics, forums, fault) :
                   /\ inst' = Keep(i, o.X)
                   /\ topics' = o.topics
                   /\ forums' = o.forums
                   /\ auto_now' = o.auto_now
                   /\ op' = OpC("PostSave", i, X0.pk, p, None, o.result,
                                c0 \o o.calls)

\* Post(topic=..., subject=s, approved=a).save(): a new post of topic t
PostCreate(i, t, s, a, fault) ==
    /\ next_post <= MaxPosts
    /\ t \in DOMAIN topics
    /\ i # None => inst[i].pk = t
    /\ post_save(i, Through(i, t), next_post,
                 Put(posts, next_post,
                     [topic |-> t, subject |-> s, approved |-> a,
                      created |-> now]), fault)
    /\ next_post' = next_post + 1
    /\ UNCHANGED <<now, next_topic>>
    /\ UNCHANGED svars

\* post.subject = s; post.approved = a; post.save() on existing post p
PostEdit(i, p, s, a, fault) ==
    /\ p \in DOMAIN posts
    /\ i # None => inst[i].pk = posts[p].topic
    /\ post_save(i, Through(i, posts[p].topic), p,
                 [posts EXCEPT ![p].subject = s, ![p].approved = a], fault)
    /\ UNCHANGED <<now, next_topic, next_post>>
    /\ UNCHANGED svars

\* Post.delete of existing post p whose topic attribute is held instance i or
\* a fresh instance
PostDelete(i, p, fault) ==
    /\ p \in DOMAIN posts
    /\ i # None => inst[i].pk = posts[p].topic
    /\ LET X0 == Through(i, posts[p].topic) IN
       \E fp \in first_post(X0, posts) :
         LET X1 == [X0 EXCEPT !.first = fp] IN
         IF fp = None
         THEN /\ inst' = Keep(i, X1)
              /\ op' = Op("PostDelete", i, X0.pk, p, None, "AttributeError")
              /\ UNCHANGED <<topics, posts, forums, auto_now>>
         ELSE \E lp \in (IF fp = p THEN last_post(X1, posts) ELSE {Unset}) :
           LET X2 == IF fp = p THEN [X1 EXCEPT !.last = lp] ELSE X1 IN
           IF fp = p /\ lp = None
           THEN /\ inst' = Keep(i, X2)
                /\ op' = Op("PostDelete", i, X0.pk, p, None, "AttributeError")
                /\ UNCHANGED <<topics, posts, forums, auto_now>>
           ELSE IF fp = p /\ lp = p
           THEN LET o == topic_delete(X2, posts, topics, forums)
                IN /\ inst' = Keep(i, o.X)
                   /\ posts' = o.posts
                   /\ topics' = o.topics
                   /\ forums' = o.forums
                   /\ op' = OpC("PostDelete", i, X0.pk, p, None, "ok", o.calls)
                   /\ UNCHANGED auto_now
           ELSE LET ps1 == Drop(posts, {p})
                IN /\ posts' = ps1
                   /\ \E o \in update_trackers(X2, ps1, topics, forums,
                                                fault) :
                        /\ inst' = Keep(i, o.X)
                        /\ topics' = o.topics
                        /\ forums' = o.forums
                        /\ auto_now' = o.auto_now
                        /\ op' = OpC("PostDelete", i, X0.pk, p, None, o.result,
                                     <<Call("Post.super_delete", p)>>
                                     \o o.calls)
    /\ UNCHANGED <<now, next_topic, next_post>>
    /\ UNCHANGED svars

\* --------------------------------------------------------- specifications
\* Every operation on topics and posts, with every input.
Next ==
    \/ Tick
    \/ \E i \in Insts, f \in Forums, s \in Subjects : TopicCreate(i, f, s)
    \/ \E i \in Insts, t \in TopicIds : TopicLoad(i, t)
    \/ \E i \in Insts, f \in Forums : TopicSave(i, f)
    \/ \E i \in Insts : TopicDelete(i)
    \/ \E i \in Insts : TopicFirstPost(i)
    \/ \E i \in Insts : TopicLastPost(i)
    \/ \E i \in Insts : TopicClean(i)
    \/ \E i \in Insts \cup {None}, t \in TopicIds, s \in Subjects,
          a \in BOOLEAN : PostCreate(i, t, s, a, "none")
    \/ \E i \in Insts \cup {None}, p \in PostIds, s \in Subjects,
          a \in BOOLEAN : PostEdit(i, p, s, a, "none")
    \/ \E i \in Insts \cup {None}, p \in PostIds : PostDelete(i, p, "none")

Spec == Init /\ [][Next]_vars

\* The counters and timestamps: every operation, topics in any forum, and
\* posts that all carry the same subject and approved flag.
NextTrackers ==
    \/ Tick
    \/ \E i \in Insts, f \in Forums : TopicCreate(i, f, "Hello")
    \/ \E i \in Insts, t \in TopicIds : TopicLoad(i, t)
    \/ \E i \in Insts, f \in Forums : TopicSave(i, f)
    \/ \E i \in Insts : TopicDelete(i)
    \/ \E i \in Insts : TopicFirstPost(i)
    \/ \E i \in Insts : TopicLastPost(i)
    \/ \E i \in Insts : TopicClean(i)
    \/ \E i \in Insts \cup {None}, t \in TopicIds :
          PostCreate(i, t, "Hello", TRUE, "none")
    \/ \E i \in Insts \cup {None}, p \in PostIds :
          PostEdit(i, p, "Hello", TRUE, "none")
    \/ \E i \in Insts \cup {None}, p \in PostIds : PostDelete(i, p, "none")

SpecTrackers == Init /\ [][NextTrackers]_vars

\* The mirrored fields: posts with any subject and approved flag, in topics
\* that stay in the forum they were created in.
HomeForum == CHOOSE f \in Forums : ForumType[f] = "forum"

NextMirror ==
    \/ Tick
    \/ \E i \in Insts, s \in Subjects : TopicCreate(i, HomeForum, s)
    \/ \E i \in Insts, t \in TopicIds : TopicLoad(i, t)
    \/ \E i \in Insts : TopicSave(i, HomeForum)
    \/ \E i \in Insts \cup {None}, t \in TopicIds, s \in Subjects,
          a \in BOOLEAN : PostCreate(i, t, s, a, "none")
    \/ \E i \in Insts \cup {None}, p \in PostIds, s \in Subjects,
          a \in BOOLEAN : PostEdit(i, p, s, a, "none")
    \/ \E i \in Insts \cup {None}, p \in PostIds : PostDelete(i, p, "none")

SpecMirror == Init /\ [][NextMirror]_vars

\* The failures: post mutations during which the database may fail the
\* topic's save or the forum rollup, and full topic saves, on a topic that
\* stays in its forum.
NextFaults ==
    \/ Tick
    \/ \E i \in Insts : TopicCreate(i, HomeForum, "Hello")
    \/ \E i \in Insts, t \in TopicIds : TopicLoad(i, t)
    \/ \E i \in Insts : TopicSave(i, HomeForum)
    \/ \E i \in Insts \cup {None}, t \in TopicIds, fault \in Faults :
          PostCreate(i, t, "Hello", TRUE, fault)
    \/ \E i \in Insts \cup {None}, p \in PostIds, fault \in Faults :
          PostEdit(i, p, "Hello", TRUE, fault)
    \/ \E i \in Insts \cup {None}, p \in PostIds, fault \in Faults :
          PostDelete(i, p, fault)

SpecFaults == Init /\ [][NextFaults]_vars

\* The poster of the post behind document d: the identities post in turn
PosterOf(d) == ((d - 1) % Cardinality(Users)) + 1

\* The search: an index built from posts of forums that host posts, some in
\* a forum that is gone since, and permissions granted one at a time.
InitSearch ==
    /\ now = 0
    /\ auto_now = TRUE
    /\ topics = NoRows
    /\ posts = NoRows
    /\ forums = [f \in Forums |-> [topics_count |-> 0, posts_count |-> 0]]
    /\ inst = [i \in Insts |-> NoInst]
    /\ next_topic = 1
    /\ next_post = 1
    /\ op = Op("init", None, None, None, None, "ok")
    /\ perms = {}
    /\ index \in {idx \in [DocIds -> [forum : PostForums \cup {MissingForum},
                                      subject : Subjects, poster : Users]] :
                    \A d \in DocIds : idx[d].poster = PosterOf(d)}
    /\ found = NoSearch
    /\ threads = NoThreads

\* assign_perm('can_read_forum', u, f)
AssignPerm(u, f) ==
    /\ <<u, f>> \notin perms
    /\ perms' = perms \cup {<<u, f>>}
    /\ op' = Op("AssignPerm", None, None, None, None, "ok")
    /\ found' = NoSearch
    /\ UNCHANGED <<now, auto_now, topics, posts, forums, inst, next_topic,
                   next_post, index, threads>>

\* SearchForm({'q': q, 'search_poster_name': poster, 'search_forums': asked},
\*            user=u).search()
Search(u, q, poster, asked) ==
    /\ found' = [user |-> u, q |-> q, asked |-> asked,
                 valid |-> is_valid(perms, u, asked),
                 results |-> search(index, perms, u, q, poster, asked)]
    /\ op' = Op("Search", None, None, None, None, "ok")
    /\ UNCHANGED <<now, auto_now, topics, posts, forums, inst, next_topic,
                   next_post, perms, index, threads>>

NextSearch ==
    \/ \E u \in Users, f \in PostForums : AssignPerm(u, f)
    \/ \E u \in Users, q \in Subjects, poster \in Users \cup {None},
          asked \in SUBSET (PostForums \cup {MissingForum}) :
          Search(u, q, poster, asked)

SpecSearch == InitSearch /\ [][NextSearch]_vars

\* ------------------------------------------------------------ two threads
\* Two threads of one process save the same topic.  They share the Topic
\* class, and with it the 'updated' field object whose auto_now attribute
\* _simple_save switches off and on; a thread may be preempted between any
\* two statements.  A thread holds in value the 'updated' of its instance
\* and records in written what its save persisted, at time clock.
ThreadTopic == CHOOSE t \in TopicIds : TRUE

\* One topic with one post, created and last updated at time 0
InitThreads ==
    /\ now = 0
    /\ auto_now = TRUE
    /\ topics = Put(NoRows, ThreadTopic,
                    [Row(NoInst) EXCEPT !.forum = HomeForum,
                                        !.posts_count = 1])
    /\ posts = Put(NoRows, 1, [topic |-> ThreadTopic, subject |-> "Hello",
                               approved |-> TRUE, created |-> 0])
    /\ forums = ForumUpdateTrackers(HomeForum, topics,
                    [f \in Forums |-> [topics_count |-> 0, posts_count |-> 0]])
    /\ inst = [i \in Insts |-> NoInst]
    /\ next_topic = MaxTopics + 1
    /\ next_post = MaxPosts + 1
    /\ op = Op("init", None, None, None, None, "ok")
    /\ perms = {}
    /\ index = NoRows
    /\ found = NoSearch
    /\ threads = NoThreads

ThreadFrame ==
    UNCHANGED <<now, posts, forums, inst, next_topic, next_post, perms, index,
                found>>

\* Thread th enters update_trackers: self.updated = self._last_post.created,
\* then calls _simple_save
SimpleBegin(th) ==
    /\ threads[th].pc = "idle"
    /\ threads' = [threads EXCEPT ![th] =
                      [IdleThread EXCEPT !.pc = "off", !.kind = "simple",
                                         !.value = MaxCreated(posts,
                                                              ThreadTopic)]]
    /\ op' = Op("SimpleBegin", None, ThreadTopic, None, None, "ok")
    /\ UNCHANGED <<auto_now, topics>>
    /\ ThreadFrame

\* updated.auto_now = False
SimpleOff(th) ==
    /\ threads[th].pc = "off"
    /\ auto_now' = FALSE
    /\ threads' = [threads EXCEPT ![th].pc = "save"]
    /\ op' = Op("SimpleOff", None, ThreadTopic, None, None, "ok")
    /\ UNCHANGED topics
    /\ ThreadFrame

\* Model.save: the field's pre_save puts the current time in 'updated' when
\* auto_now is on, and the row is written
ModelSave(th, next_pc) ==
    LET w == IF auto_now THEN now ELSE threads[th].value IN
    /\ topics' = [topics EXCEPT ![ThreadTopic].updated = w]
    /\ threads' = [threads EXCEPT ![th].pc = next_pc, ![th].value = w,
                                  ![th].written = w, ![th].clock = now]
    /\ UNCHANGED auto_now
    /\ ThreadFrame

\* super(AbstractTopic, self).save() inside _simple_save
SimpleSave(th) ==
    /\ threads[th].pc = "save"
    /\ threads[th].kind = "simple"
    /\ ModelSave(th, "on")
    /\ op' = Op("SimpleSave", None, ThreadTopic, None, None, "ok")

\* updated.auto_now = True, and _simple_save returns
SimpleOn(th) ==
    /\ threads[th].pc = "on"
    /\ auto_now' = TRUE
    /\ threads' = [threads EXCEPT ![th].pc = "done"]
    /\ op' = Op("SimpleOn", None, ThreadTopic, None, None, "ok")
    /\ UNCHANGED topics
    /\ ThreadFrame

\* Thread th loads the topic and enters Topic.save, the forum left as it is
FullBegin(th) ==
    /\ threads[th].pc = "idle"
    /\ threads' = [threads EXCEPT ![th] =
                      [IdleThread EXCEPT !.pc = "save", !.kind = "full",
                                         !.value = topics[ThreadTopic].updated]]
    /\ op' = Op("FullBegin", None, ThreadTopic, None, None, "ok")
    /\ UNCHANGED <<auto_now, topics>>
    /\ ThreadFrame

\* super(AbstractTopic, self).save() inside Topic.save, which then returns
FullSave(th) ==
    /\ threads[th].pc = "save"
    /\ threads[th].kind = "full"
    /\ ModelSave(th, "done")
    /\ op' = Op("FullSave", None, ThreadTopic, None, None, "ok")

\* The thread is free for its next call
ThreadReturn(th) ==
    /\ threads[th].pc = "done"
    /\ threads' = [threads EXCEPT ![th] = IdleThread]
    /\ op' = Op("ThreadReturn", None, ThreadTopic, None, None, "ok")
    /\ UNCHANGED <<auto_now, topics>>
    /\ ThreadFrame

NextThreads ==
    \/ Tick
    \/ \E th \in Threads : SimpleBegin(th)
    \/ \E th \in Threads : SimpleOff(th)
    \/ \E th \in Threads : SimpleSave(th)
    \/ \E th \in Threads : SimpleOn(th)
    \/ \E th \in Threads : FullBegin(th)
    \/ \E th \in Threads : FullSave(th)
    \/ \E th \in Threads : ThreadReturn(th)

SpecThreads == InitThreads /\ [][NextThreads]_vars

\* ------------------------------------------------------------------ claims
PostOps == {"PostSave", "PostDelete"}

\* The counters a rollup of forum f computes from topic rows tps
Aggregate(tps, f) ==
    LET own == {t \in DOMAIN tps : tps[t].forum \in Descendants[f]}
    IN [topics_count |-> Cardinality(own),
        posts_count |-> SumOver(own, [t \in own |-> tps[t].posts_count])]

\* C1: after a Post.save or Post.delete on a post of topic T, if T still
\* exists its persisted posts_count is the number of posts attached to T.
C1_PostsCountIsCount ==
    (op.name \in PostOps /\ op.topic \in DOMAIN topics)
        => topics[op.topic].posts_count = Cardinality(PostsOf(posts, op.topic))

\* C2: after a post creation, edit or deletion in topic T, if T still exists
\* and has a post, its persisted subject is the subject of a post with the
\* earliest creation time in T.
C2_SubjectIsFirstPostSubject ==
    (op.name \in PostOps /\ op.topic \in DOMAIN topics
       /\ PostsOf(posts, op.topic) # {})
        => \E p \in FirstCandidates(posts, op.topic) :
              topics[op.topic].subject = posts[p].subject

\* C3: a Post.delete of the only post of its topic deletes the topic, and the
\* topic_count of the forum that owned it is one less than before.
C3_SolePostDeleteDeletesTopic ==
    [][(op'.name = "PostDelete" /\ op'.post \in DOMAIN posts
          /\ PostsOf(posts, posts[op'.post].topic) = {op'.post})
        => LET t == posts[op'.post].topic
               f == topics[t].forum
           IN /\ t \notin DOMAIN topics'
              /\ forums'[f].topics_count = forums[f].topics_count - 1]_vars

\* C4: a Post.delete of a post whose topic has two or more posts removes that
\* post and nothing else: the topic and its other posts are still there.
C4_DeleteRemovesOnlyThePost ==
    [][(op'.name = "PostDelete" /\ op'.post \in DOMAIN posts
          /\ Cardinality(PostsOf(posts, posts[op'.post].topic)) >= 2)
        => /\ posts[op'.post].topic \in DOMAIN topics'
           /\ DOMAIN posts' = DOMAIN posts \ {op'.post}]_vars

C7_TopicForumIsForum ==
    \A t \in DOMAIN topics : ForumType[topics[t].forum] = "forum"

\* C8: the positions of the n posts of a topic are exactly 1..n, no two posts
\* sharing one.
C8_PositionsAreRanks ==
    \A t \in DOMAIN topics :
        LET own == PostsOf(posts, t)
        IN /\ {position(posts, p) : p \in own} = 1..Cardinality(own)
           /\ \A p, q \in own :
                 position(posts, p) = position(posts, q) => p = q

C10_ExplicitForumSet ==
    (op.name = "Search" /\ found.asked # {})
        => /\ \A d \in found.results :
                 /\ index[d].forum \in found.asked
                 /\ <<found.user, index[d].forum>> \in perms
           /\ (\E f \in found.asked :
                  f \notin Forums \/ <<found.user, f>> \notin perms)
                 => /\ found.results = {}
                    /\ ~found.valid
           /\ op.result = "ok"

\* C10 witness: the set named a readable forum that holds a matching post
\* and a forum the identity may not read.
C10_Witness ==
    /\ op.name = "Search"
    /\ \E f \in found.asked :
          /\ <<found.user, f>> \in perms
          /\ \E d \in DOMAIN index :
                index[d].forum = f /\ index[d].subject = found.q
    /\ \E f \in found.asked \cap Forums : <<found.user, f>> \notin perms
    /\ found.results = {}
    /\ ~found.valid

\* C11: after a Post.save or Post.delete that ran through a held topic
\* instance and returned, what the instance has memoized as first_post and as
\* last_post is a post that is the earliest-created, respectively the
\* latest-created, of the posts now attached to the topic (no post when there
\* is none): never a deleted post, never an older answer.
C11_MemoIsCurrent ==
    (op.name \in PostOps /\ op.result = "ok" /\ op.inst # None
       /\ inst[op.inst].pk \in DOMAIN topics)
        => LET X == inst[op.inst]
           IN /\ X.first # Unset => X.first \in FirstCandidates(posts, X.pk)
              /\ X.last # Unset => X.last \in LastCandidates(posts, X.pk)

\* C12: after a post creation, edit or deletion in topic T, if T still exists
\* and has a post, its persisted approved flag is the flag of a post with the
\* earliest creation time in T.
C12_ApprovedIsFirstPostApproved ==
    (op.name \in PostOps /\ op.topic \in DOMAIN topics
       /\ PostsOf(posts, op.topic) # {})
        => \E p \in FirstCandidates(posts, op.topic) :
              topics[op.topic].approved = posts[p].approved

\* C13: every call of Topic.update_trackers an operation makes is on a topic
\* that exists and has a post attached at the time of the call (the posts and
\* the topic rows at that time are those the operation leaves).
C13_TrackersOnlyWithPosts ==
    \A k \in DOMAIN op.calls :
        op.calls[k].fn = "Topic.update_trackers"
            => /\ op.calls[k].arg \in DOMAIN topics
               /\ PostsOf(posts, op.calls[k].arg) # {}

\* C14: every Post.save returns after exactly these calls in this order: the
\* post is persisted, Topic.update_trackers runs on the owning topic, which
\* persists the topic once through _simple_save (Topic.save is not called)
\* and then runs the forum rollup once.
C14_PostSaveRunsTrackersOnce ==
    op.name = "PostSave"
        => /\ op.result = "ok"
           /\ op.topic \in DOMAIN topics
           /\ op.calls = <<Call("Post.super_save", op.post),
                           Call("Topic.update_trackers", op.topic),
                           Call("Topic._simple_save", op.topic),
                           Call("Forum.update_trackers",
                                topics[op.topic].forum)>>

\* C15: a Topic.save of a new topic, or of a topic whose persisted forum is
\* the forum being saved, only persists the topic: update_trackers is not
\* called, the instance's posts_count and every forum's counters are as
\* before.  A Topic.save with a changed forum persists the topic, runs
\* update_trackers (lightweight save, rollup from the new forum) and then the
\* rollup from the old forum as the database has it, so that the counters of
\* both chains are the ones recomputed from the topic rows.
C15_TopicSaveTrackersOnlyOnReparent ==
    [][(op'.name \in {"TopicCreate", "TopicSave"}
          /\ op'.result # "DoesNotExist")
        => LET i == op'.inst
               t == op'.topic
               new == inst'[i].forum
               old == op'.old_forum
           IN IF op'.name = "TopicCreate" \/ old = new
              THEN /\ op'.calls = <<Call("Topic.super_save", t)>>
                   /\ forums' = forums
                   /\ inst'[i].posts_count
                         = (IF op'.name = "TopicCreate" THEN 0
                            ELSE inst[i].posts_count)
              ELSE /\ op'.calls = <<Call("Topic.super_save", t),
                                    Call("Topic.update_trackers", t),
                                    Call("Topic._simple_save", t),
                                    Call("Forum.update_trackers", new),
                                    Call("Forum.update_trackers", old)>>
                   /\ \A g \in Ancestors[new] \cup Ancestors[old] :
                         forums'[g] = Aggregate(topics', g)
      ]_vars

\* C16: when a Post.save or Post.delete fails after the post was persisted or
\* removed, the persisted aggregates are all or nothing: either no topic row
\* and no forum counter has changed, or the topic's posts_count and updated
\* and the counters of its forum and of the forums above are those of the
\* posts as the mutation left them.
C16_FailureIsAllOrNothing ==
    [][(op'.name \in PostOps /\ op'.result # "ok" /\ posts' # posts
          /\ op'.topic \in DOMAIN topics')
        => LET t == op'.topic
           IN \/ /\ topics' = topics
                 /\ forums' = forums
              \/ /\ PostsOf(posts', t) # {}
                 /\ topics'[t].posts_count = Cardinality(PostsOf(posts', t))
                 /\ topics'[t].updated = MaxCreated(posts', t)
                 /\ \A g \in Ancestors[topics'[t].forum] :
                       forums'[g] = Aggregate(topics', g)
      ]_vars

\* C17: every persisted topic has slug = slugify(subject) for the subject it
\* is persisted with.
C17_SlugIsSlugifiedSubject ==
    \A t \in DOMAIN topics : topics[t].slug = Slugify(topics[t].subject)

\* C18: between operations (no _simple_save is running) the auto_now flag of
\* the 'updated' field is on, also after a _simple_save whose save failed, and
\* so a full Topic.save that returns has written the current time.
C18_AutoNowRestored ==
    /\ auto_now = TRUE
    /\ (op.name \in {"TopicCreate", "TopicSave"} /\ op.result = "ok"
          /\ op.topic \in DOMAIN topics
          /\ op.calls = <<Call("Topic.super_save", op.topic)>>)
        => topics[op.topic].updated = now

\* C19: when two threads interleave lightweight and full saves of a topic,
\* every lightweight save has persisted the 'updated' its thread computed
\* from the last post, and every full save has persisted the time at which
\* it ran.
C19_ThreadsDoNotLeakAutoNow ==
    \A th \in Threads :
        threads[th].pc \in {"on", "done"}
            => /\ threads[th].kind = "simple"
                    => threads[th].written = MaxCreated(posts, ThreadTopic)
               /\ threads[th].kind = "full"
                    => threads[th].written = threads[th].clock
====
